---- MODULE Spec2Model ----
(***************************************************************************)
(* A model of seo-live-audit: the POST handler of app/api/audit/route.ts   *)
(* together with the Perplexity adapter of lib/perplexity.ts that it       *)
(* calls, comprehensiveSEOAnalysis of the same file, makeRequest of the    *)
(* DataForSEO client of lib/dataforseo.ts, and the results page of         *)
(* app/audit/page.tsx with its effect and stream reader.                   *)
(*                                                                         *)
(* One run of POST is a sequential process.  Its position is pc; the       *)
(* points where the handler is suspended on a provider promise are         *)
(* "await_serp" and "await_fetch".  Text is modelled as a sequence of      *)
(* string parts, so that a template literal keeps the value interpolated   *)
(* into it.                                                                *)
(***************************************************************************)
EXTENDS Naturals, Sequences, FiniteSets, TLC

VARIABLES
    apiKey,       \* process.env.PERPLEXITY_API_KEY is set
    dfsLogin,     \* process.env.DATAFORSEO_LOGIN is set
    dfsPassword,  \* process.env.DATAFORSEO_PASSWORD is set
    clock,        \* what new Date() reads
    pc,           \* position of the POST run
    body,         \* the request body as received
    auditResult,  \* the AuditResult object under construction
    response,     \* the NextResponse returned, status 0 while there is none
    contacted,    \* the provider adapters called or constructed by the run
    serpCall,     \* the researchSerp call of step 1
    aiCall,       \* the perplexityChat call of step 2
    step3,        \* how the step 3 block ended: "none", "ok" or "threw"
    threwAt,      \* where an exception reached the outer catch
    dfsReq,       \* a call of DataForSEOClient.makeRequest by a client method
    prev,         \* the previous run of POST, once the request was repeated
    cancelled,    \* the caller has aborted the request of the run
    batch,        \* a call of comprehensiveSEOAnalysis and its four analyses
    params,       \* the search parameters the results page is rendered with
    run,          \* the runAudit call of the page's latest effect
    old,          \* the runAudit call of the effect before it, if still going
    auditData,    \* the page's auditData state
    isLoading,    \* the page's isLoading state
    error,        \* the page's error state, <<>> for null
    appender      \* for each entry of auditData: which run appended it, and
                  \* which run was the latest then

vars == <<apiKey, dfsLogin, dfsPassword, clock, pc, body, auditResult,
          response, contacted, serpCall, aiCall, step3, threwAt, dfsReq,
          prev, cancelled, batch,
          params, run, old, auditData, isLoading, error, appender>>

pageVars == <<params, run, old, auditData, isLoading, error, appender>>

-----------------------------------------------------------------------------
(* Bounds *)

MaxClock == 2

-----------------------------------------------------------------------------
(* JSON values of the request body *)

Str(s) == [type |-> "string", val |-> s]
Undefined == [type |-> "undefined", val |-> ""]
\* An object whose toString is not callable, e.g. {"toString": 1}: truthy, and
\* a template literal that interpolates it throws a TypeError.
BadObject == [type |-> "object", val |-> "{toString:1}"]

Falsy(v) == v.type = "undefined" \/ (v.type = "string" /\ v.val = "")

\* ToString of a template literal's substitution
Printable(v) == v.type = "string"

Domains == {Undefined, Str(""), Str("a"), Str("example.com"), BadObject}
Markets == {Undefined, Str(""), Str("US"), Str("DE"), BadObject}

\* A body for which request.json() rejects, or whose value cannot be
\* destructured (null)
MalformedBody == [kind |-> "malformed"]
Bodies == {MalformedBody} \cup
          {[kind |-> "object", domain |-> d, market |-> m] : d \in Domains, m \in Markets}

Lit(s) == <<s>>

NoResult == [x \in {} |-> x]
NoResponse == [status |-> 0, body |-> NoResult]
NoCall == [state |-> "none"]
NoRun == [run |-> FALSE]

SectionKeys == {"serpResearch", "seoAnalysis", "technicalAudit",
                "contentAnalysis", "competitorAnalysis"}

SetSection(r, k, v) == [x \in (DOMAIN r) \cup {k} |-> IF x = k THEN v ELSE r[x]]

-----------------------------------------------------------------------------
(* lib/perplexity.ts: perplexityChat *)

DefaultModel == "sonar-small-online"

\* What the fetch of perplexityChat can do.  "reject": the promise rejects;
\* "http": response.ok is false, errorData is the parsed error body ("" when
\* response.json() fails); "badjson": response.json() of an ok response
\* rejects; "nochoices": choices missing or empty; "ok": a completion;
\* "never": the promise never settles.
FetchOutcome(k, st, ed, c, u) ==
    [kind |-> k, status |-> st, errorData |-> ed, content |-> c, usage |-> u]

FetchOutcomes ==
    { FetchOutcome("reject", "", "", "", 0),
      FetchOutcome("http", "401 Unauthorized", "Invalid API key", "", 0),
      FetchOutcome("http", "500 Internal Server Error", "", "", 0),
      FetchOutcome("badjson", "", "", "", 0),
      FetchOutcome("nochoices", "", "", "", 0),
      FetchOutcome("ok", "", "", "analysis A", 1250),
      FetchOutcome("ok", "", "", "analysis B", 0),
      FetchOutcome("never", "", "", "", 0) }

MissingKeyMessage == Lit("PERPLEXITY_API_KEY environment variable is required")

\* The message of the Error that reaches the catch of perplexityChat
FetchErrorMessage(o) ==
    CASE o.kind = "reject" -> Lit("fetch failed")
      [] o.kind = "http" ->
            <<"Perplexity API error: ", o.status>> \o
            (IF o.errorData # "" THEN <<" - ", o.errorData>> ELSE <<>>)
      [] o.kind = "badjson" -> Lit("Unexpected token in JSON")
      [] o.kind = "nochoices" -> Lit("No response from Perplexity API")

perplexitySuccess(o, model, now) ==
    [content |-> Lit(o.content), usage |-> o.usage, model |-> model,
     timestamp |-> now]

perplexityFallback(message, now) ==
    [content |-> Lit("SEO Analysis temporarily unavailable. Please check your API configuration and try again."),
     error |-> message, fallback |-> TRUE, timestamp |-> now]

\* The check of the key, before the try block: it throws without a key and
\* otherwise goes on to the fetch.
perplexityKeyCheck(key) ==
    IF ~key
    THEN [kind |-> "throw", error |-> MissingKeyMessage]
    ELSE [kind |-> "fetch"]

\* perplexityChat(prompt) with the environment's key, the fetch outcome o
\* (not "never") and the time now: the promise's settlement.
perplexityChat(key, o, now) ==
    IF perplexityKeyCheck(key).kind = "throw"
    THEN perplexityKeyCheck(key)
    ELSE IF o.kind = "ok"
         THEN [kind |-> "return", value |-> perplexitySuccess(o, DefaultModel, now)]
         ELSE [kind |-> "return", value |-> perplexityFallback(FetchErrorMessage(o), now)]

-----------------------------------------------------------------------------
(* lib/perplexity.ts: seoPrompts and comprehensiveSEOAnalysis *)

Kinds == <<"technical", "content", "competitor", "local">>
KindIndex == 1..4

\* The prompt of a kind: a template literal over domain and market, both
\* strings by the function's signature
seoPrompts(kind, d, m) ==
    CASE kind = "technical" ->
           <<"Analyze the technical SEO aspects for ", d, " targeting the ", m, " market">>
      [] kind = "content" ->
           <<"Analyze content strategy for ", d, " in the ", m, " market">>
      [] kind = "competitor" ->
           <<"Perform competitor analysis for ", d, " in the ", m, " market">>
      [] kind = "local" ->
           <<"Analyze local SEO opportunities for ", d, " in the ", m, " market">>

BatchInputs == { <<"a", "US">>, <<"example.com", "DE">> }

\* What the fetch of an analysis does: one outcome of each way perplexityChat
\* can end (fallback, the two completions, no settlement)
BatchFetchOutcomes == {o \in FetchOutcomes : o.kind \in {"reject", "ok", "never"}}

NoBatch == [state |-> "none"]

AnalysisFailed(kind) ==
    CASE kind = "technical" -> [error |-> Lit("Technical analysis failed")]
      [] kind = "content" -> [error |-> Lit("Content analysis failed")]
      [] kind = "competitor" -> [error |-> Lit("Competitor analysis failed")]
      [] kind = "local" -> [error |-> Lit("Local analysis failed")]

Settled(call) == call.state \in {"fulfilled", "rejected"}

\* A faulty variant of allSettled: Promise.all, which rejects as soon as one
\* of the promises has rejected
allSettledAsAll(calls) ==
    IF \E i \in KindIndex : calls[i].state = "rejected"
    THEN [ready |-> TRUE, kind |-> "rejected"]
    ELSE [ready |-> \A i \in KindIndex : Settled(calls[i]), kind |-> "fulfilled"]

\* Promise.allSettled over the four promises: it fulfils, once every one of
\* them has settled
allSettled(calls) ==
    [ready |-> \A i \in KindIndex : Settled(calls[i]), kind |-> "fulfilled"]

\* The object returned: for each kind the value of its promise, or the
\* error object of the kind when the promise rejected
comprehensiveResult(calls) ==
    [k \in {Kinds[i] : i \in KindIndex} |->
       LET i == CHOOSE j \in KindIndex : Kinds[j] = k
       IN IF calls[i].state = "fulfilled" THEN calls[i].value
          ELSE AnalysisFailed(k)]

-----------------------------------------------------------------------------
(* researchSerp: imported by the route from lib/perplexity, which does not *)
(* define it.  It is modelled by the adapter contract: it returns an       *)
(* {answer, sources} payload or fails (synchronously or by rejection),     *)
(* within a bounded time.  The synchronous failure covers the call of a    *)
(* missing export.                                                         *)

SerpPayloads ==
    { [answer |-> Lit("answer A"), sources |-> <<>>],
      [answer |-> Lit("answer B"),
       sources |-> <<[title |-> "t", url |-> "https://s.example", snippet |-> "s"]>>] }

researchSerp ==
    {[kind |-> "throw"], [kind |-> "reject"]} \cup
    {[kind |-> "ok", value |-> p] : p \in SerpPayloads}

-----------------------------------------------------------------------------
(* app/api/audit/route.ts: POST *)

\* A faulty variant of Validate: the market is not checked
ValidateDomainOnly(d, m) == ~Falsy(d)

Validate(d, m) == ~(Falsy(d) \/ Falsy(m))

InitialResult(d, m, now) ==
    [domain |-> d, market |-> m, timestamp |-> now, recommendations |-> <<>>]

\* The template literals of steps 1 and 2 interpolate domain and market
SerpQueryThrows(d, m) == ~Printable(d) \/ ~Printable(m)
SeoPromptThrows(d, m) == ~Printable(d) \/ ~Printable(m)
\* those of step 3 and of the recommendations interpolate market alone
Step3Throws(m) == ~Printable(m)
RecommendationsThrow(m) == ~Printable(m)

SerpFallback ==
    [answer |-> Lit("SERP research temporarily unavailable"), sources |-> <<>>]
AiRouteError == [error |-> Lit("Failed to get AI analysis")]
TechnicalError == [error |-> Lit("Failed to get technical audit data")]

Step1Success(r, payload) == SetSection(r, "serpResearch", payload)
Step1Catch(r) == SetSection(r, "serpResearch", SerpFallback)
Step2Success(r, value) == SetSection(r, "seoAnalysis", value)
\* A faulty variant of Step2Catch: it also resets the section of step 1
Step2CatchClobbers(r) ==
    SetSection(SetSection(r, "seoAnalysis", AiRouteError), "serpResearch", SerpFallback)

Step2Catch(r) == SetSection(r, "seoAnalysis", AiRouteError)

TechnicalAudit(m) ==
    [message |-> Lit("DataForSEO integration placeholder - implement actual API calls"),
     suggestedChecks |->
       << Lit("Page speed analysis with Core Web Vitals"),
          <<"Mobile responsiveness for ", m.val, " market">>,
          Lit("Meta tags optimization based on SERP analysis"),
          Lit("Internal linking structure optimization"),
          Lit("Schema markup implementation for SERP features"),
          <<"Local SEO setup for ", m.val, " market">> >>]

ContentAnalysis(m) ==
    [message |-> Lit("Content analysis based on SERP research"),
     suggestions |->
       << <<"Keyword density analysis for ", m.val, " search terms">>,
          Lit("Content gap analysis vs top SERP competitors"),
          Lit("Readability assessment for target market"),
          Lit("Content freshness evaluation"),
          Lit("Featured snippet optimization opportunities"),
          <<"Market-specific content localization for ", m.val>> >>]

CompetitorAnalysis(m) ==
    [message |-> Lit("Competitor analysis based on SERP data"),
     tasks |->
       << <<"Identify top SERP competitors in ", m.val>>,
          Lit("Analyze competitor keyword strategies from search results"),
          Lit("Compare backlink profiles of ranking competitors"),
          Lit("Content strategy comparison with SERP leaders"),
          <<"Local competitor analysis for ", m.val, " market">>,
          Lit("SERP feature competition analysis") >>]

\* A faulty variant of Step3Success: the technical section carries the time
\* of the run
Step3SuccessStamped(r, m) ==
    SetSection(SetSection(SetSection(r,
        "technicalAudit", SetSection(TechnicalAudit(m), "checkedAt", r.timestamp)),
        "contentAnalysis", ContentAnalysis(m)),
        "competitorAnalysis", CompetitorAnalysis(m))

Step3Success(r, m) ==
    SetSection(SetSection(SetSection(r,
        "technicalAudit", TechnicalAudit(m)),
        "contentAnalysis", ContentAnalysis(m)),
        "competitorAnalysis", CompetitorAnalysis(m))

\* A faulty variant of Step3Catch: the catch clause starts the result afresh
Step3CatchStartsAfresh(r) ==
    SetSection(InitialResult(r.domain, r.market, r.timestamp),
               "technicalAudit", TechnicalError)

Step3Catch(r) == SetSection(r, "technicalAudit", TechnicalError)

Recommendations(m) ==
    << <<"Target SERP-identified keyword opportunities in ", m.val>>,
       Lit("Optimize for featured snippets based on current search results"),
       Lit("Implement schema markup to compete for rich results"),
       <<"Improve page loading speed to match ", m.val, " SERP leaders">>,
       <<"Build quality backlinks relevant to ", m.val, " search landscape">>,
       <<"Create content targeting ", m.val, "-specific search intent">>,
       Lit("Optimize for voice search queries prevalent in search results"),
       <<"Enhance local SEO presence in ", m.val, " market">>,
       Lit("Implement mobile-first design based on SERP mobile analysis") >>

BadRequest == [status |-> 400, body |-> [error |-> Lit("Domain and market are required")]]
InternalError == [status |-> 500, body |-> [error |-> Lit("Internal server error")]]
\* A faulty variant of Ok: the report is returned together with an error
OkWithError(r) ==
    [status |-> 200, body |-> SetSection(r, "error", Lit("Partial results"))]

Ok(r) == [status |-> 200, body |-> r]

\* A faulty variant of Handler: step 2 has no try statement of its own
HandlerStep2Unwrapped(at) ==
    CASE at = "step1" -> "catch1"
      [] at = "step3" -> "catch3"
      [] OTHER -> "outer"

\* The try statement whose catch clause handles an exception thrown at a
\* place of POST: each step has its own, everything else the outer one.
Handler(at) ==
    CASE at = "step1" -> "catch1"
      [] at = "step2" -> "catch2"
      [] at = "step3" -> "catch3"
      [] OTHER -> "outer"

\* A faulty variant of AwaitPoint: the promise of perplexityChat is not
\* awaited, the handler goes on to step 3
AwaitPointStep2NotAwaited(step) ==
    CASE step = "step1" -> "await_serp"
      [] step = "step2" -> "step3"

\* A faulty variant of AwaitPoint: the promise of researchSerp is not
\* awaited, the handler goes on to step 2
AwaitPointStep1NotAwaited(step) ==
    CASE step = "step1" -> "step2"
      [] step = "step2" -> "await_fetch"

\* Where the handler is after it has called the provider of a step: both
\* calls are awaited, so it is suspended until the promise settles.
AwaitPoint(step) ==
    CASE step = "step1" -> "await_serp"
      [] step = "step2" -> "await_fetch"

\* An exception reaches the outer catch: the 500 response.
OuterCatch(at) ==
    /\ response' = InternalError
    /\ threwAt' = at
    /\ pc' = "done"

\* await request.json(), the validation and the initial result object
Receive(b) ==
    /\ body' = b
    /\ IF b.kind = "malformed"
       THEN /\ OuterCatch("json")
            /\ UNCHANGED auditResult
       ELSE IF ~Validate(b.domain, b.market)
            THEN /\ response' = BadRequest
                 /\ pc' = "done"
                 /\ threwAt' = "none"
                 /\ UNCHANGED auditResult
            ELSE /\ auditResult' = InitialResult(b.domain, b.market, clock)
                 /\ pc' = "step1"
                 /\ response' = NoResponse
                 /\ threwAt' = "none"

\* A request arrives
POST_Receive ==
    /\ pc = "idle"
    /\ \E b \in Bodies : Receive(b)
    /\ UNCHANGED <<pageVars, batch, apiKey, dfsLogin, dfsPassword, dfsReq, prev, cancelled, clock,
                   contacted, serpCall, aiCall, step3>>

\* The caller, having got a report, sends the same request again: POST runs
\* anew, with everything it keeps declared inside the function
POST_Repeat ==
    /\ pc = "done"
    /\ response.status = 200
    /\ prev = NoRun
    /\ prev' = [run |-> TRUE, body |-> body, serpCall |-> serpCall,
                aiCall |-> aiCall, step3 |-> step3, response |-> response]
    /\ Receive(body)
    /\ contacted' = {}
    /\ serpCall' = NoCall
    /\ aiCall' = NoCall
    /\ step3' = "none"
    /\ UNCHANGED <<pageVars, batch, apiKey, dfsLogin, dfsPassword, dfsReq, cancelled, clock>>

\* The caller aborts the request while the handler runs.  The handler does
\* not read request.signal and passes no signal to a provider call, so
\* nothing of the run changes.
Cancel ==
    /\ pc \notin {"idle", "done"}
    /\ ~cancelled
    /\ cancelled' = TRUE
    /\ UNCHANGED <<pageVars, batch, apiKey, dfsLogin, dfsPassword, dfsReq, prev, clock, pc, body,
                   auditResult, response, contacted, serpCall, aiCall, step3,
                   threwAt>>

\* An exception thrown in the try block of step 1
Step1Throw ==
    IF Handler("step1") = "catch1"
    THEN /\ auditResult' = Step1Catch(auditResult)
         /\ pc' = "step2"
         /\ UNCHANGED <<response, threwAt>>
    ELSE /\ OuterCatch("step1")
         /\ UNCHANGED auditResult

\* Step 1 up to its await: the query text and the call of researchSerp
POST_Step1 ==
    /\ pc = "step1"
    /\ IF SerpQueryThrows(body.domain, body.market)
       THEN /\ Step1Throw
            /\ UNCHANGED <<contacted, serpCall>>
       ELSE /\ contacted' = contacted \cup {"researchSerp"}
            /\ \E o \in researchSerp :
                 IF o.kind = "throw"
                 THEN /\ serpCall' = [state |-> "threw", outcome |-> o]
                      /\ Step1Throw
                 ELSE /\ serpCall' = [state |-> "pending", outcome |-> o]
                      /\ pc' = AwaitPoint("step1")
                      /\ UNCHANGED <<auditResult, response, threwAt>>
    /\ UNCHANGED <<pageVars, batch, apiKey, dfsLogin, dfsPassword, dfsReq, prev, cancelled, clock, body, aiCall, step3>>

\* The researchSerp promise settles
POST_Step1Settle ==
    /\ pc = "await_serp"
    /\ serpCall' = [serpCall EXCEPT !.state = "settled"]
    /\ IF serpCall.outcome.kind = "ok"
       THEN /\ auditResult' = Step1Success(auditResult, serpCall.outcome.value)
            /\ pc' = "step2"
            /\ UNCHANGED <<response, threwAt>>
       ELSE Step1Throw
    /\ UNCHANGED <<pageVars, batch, apiKey, dfsLogin, dfsPassword, dfsReq, prev, cancelled, clock, body, contacted,
                   aiCall, step3>>

\* An exception thrown in the try block of step 2
Step2Throw ==
    IF Handler("step2") = "catch2"
    THEN /\ auditResult' = Step2Catch(auditResult)
         /\ pc' = "step3"
         /\ UNCHANGED <<response, threwAt>>
    ELSE /\ OuterCatch("step2")
         /\ UNCHANGED auditResult

\* Step 2 up to its await: the prompt and the call of perplexityChat, which
\* throws without a key and otherwise issues its fetch
POST_Step2 ==
    /\ pc = "step2"
    /\ IF SeoPromptThrows(body.domain, body.market)
       THEN /\ Step2Throw
            /\ UNCHANGED <<contacted, aiCall>>
       ELSE /\ contacted' = contacted \cup {"perplexityChat"}
            /\ IF perplexityKeyCheck(apiKey).kind = "throw"
               THEN /\ aiCall' = [state |-> "threw", result |-> perplexityKeyCheck(apiKey)]
                    /\ Step2Throw
               ELSE /\ \E o \in FetchOutcomes :
                         aiCall' = [state |-> "pending", outcome |-> o]
                    /\ pc' = AwaitPoint("step2")
                    /\ UNCHANGED <<auditResult, response, threwAt>>
    /\ UNCHANGED <<pageVars, batch, apiKey, dfsLogin, dfsPassword, dfsReq, prev, cancelled, clock, body, serpCall, step3>>

\* The fetch of perplexityChat settles and perplexityChat returns
POST_Step2Settle ==
    /\ pc = "await_fetch"
    /\ aiCall.outcome.kind # "never"
    /\ LET res == perplexityChat(apiKey, aiCall.outcome, clock) IN
         /\ aiCall' = [state |-> "settled", outcome |-> aiCall.outcome, result |-> res]
         /\ IF res.kind = "return"
            THEN /\ auditResult' = Step2Success(auditResult, res.value)
                 /\ pc' = "step3"
                 /\ UNCHANGED <<response, threwAt>>
            ELSE Step2Throw
    /\ UNCHANGED <<pageVars, batch, apiKey, dfsLogin, dfsPassword, dfsReq, prev, cancelled, clock, body, contacted,
                   serpCall, step3>>

\* Step 3: the client is constructed and the three placeholder sections are
\* written; no request is made
POST_Step3 ==
    /\ pc = "step3"
    /\ contacted' = contacted \cup {"DataForSEOClient"}
    /\ IF Step3Throws(body.market)
       THEN /\ step3' = "threw"
            /\ IF Handler("step3") = "catch3"
               THEN /\ auditResult' = Step3Catch(auditResult)
                    /\ pc' = "recs"
                    /\ UNCHANGED <<response, threwAt>>
               ELSE /\ OuterCatch("step3")
                    /\ UNCHANGED auditResult
       ELSE /\ step3' = "ok"
            /\ auditResult' = Step3Success(auditResult, body.market)
            /\ pc' = "recs"
            /\ UNCHANGED <<response, threwAt>>
    /\ UNCHANGED <<pageVars, batch, apiKey, dfsLogin, dfsPassword, dfsReq, prev, cancelled, clock, body, serpCall, aiCall>>

\* The recommendations list, outside every step's try block
POST_Recommendations ==
    /\ pc = "recs"
    /\ IF RecommendationsThrow(body.market)
       THEN /\ OuterCatch("recommendations")
            /\ UNCHANGED auditResult
       ELSE /\ auditResult' = [auditResult EXCEPT
                                 !.recommendations = Recommendations(body.market)]
            /\ pc' = "return"
            /\ UNCHANGED <<response, threwAt>>
    /\ UNCHANGED <<pageVars, batch, apiKey, dfsLogin, dfsPassword, dfsReq, prev, cancelled, clock, body, contacted,
                   serpCall, aiCall, step3>>

\* return NextResponse.json(auditResult)
POST_Return ==
    /\ pc = "return"
    /\ response' = Ok(auditResult)
    /\ pc' = "done"
    /\ UNCHANGED <<pageVars, batch, apiKey, dfsLogin, dfsPassword, dfsReq, prev, cancelled, clock, body, auditResult,
                   contacted, serpCall, aiCall, step3, threwAt>>

\* Time passes while the handler is idle or suspended on a provider
Tick ==
    /\ pc \in {"idle", "await_serp", "await_fetch"}
    /\ clock < MaxClock
    /\ clock' = clock + 1
    /\ UNCHANGED <<pageVars, batch, apiKey, dfsLogin, dfsPassword, dfsReq, prev, cancelled, pc, body, auditResult,
                   response, contacted, serpCall, aiCall, step3, threwAt>>

-----------------------------------------------------------------------------
(* lib/dataforseo.ts: DataForSEOClient.makeRequest *)

\* An endpoint is the sequence of its path segments: '/on_page/task_post' is
\* <<"on_page", "task_post">>.
\* onPageAudit posts its task to '/on_page/task_post'
OnPageEndpoint == <<"on_page", "task_post">>

Endpoints ==
    { OnPageEndpoint,
      <<"keywords_data", "google", "search_volume", "task_post">>,
      <<"user">> }

\* endpoint.includes('/' + segment + '/')
IncludesSegment(endpoint, segment) ==
    \E i \in 1..(Len(endpoint) - 1) : endpoint[i] = segment

StatusOk == 20000

baseResponse(now) ==
    [version |-> "0.1.20240814", status_code |-> StatusOk,
     status_message |-> "Ok. (placeholder response)", time |-> now,
     cost |-> 0, tasks_count |-> 1, tasks_error |-> 0]

\* Numbers with a fraction are kept as their text; the keys '2xx'..'5xx' of
\* pages_summary are written s2xx..s5xx.
OnPagePlaceholderItem ==
    [resource_type |-> "html", status_code |-> 200,
     page_timing |-> [time_to_interactive |-> 2500, dom_complete |-> 2200,
                      largest_contentful_paint |-> 1800, first_input_delay |-> 100,
                      cumulative_layout_shift |-> "0.1"],
     page_metrics |-> [links_internal |-> 25, links_external |-> 8,
                       duplicate_title |-> FALSE, duplicate_description |-> FALSE,
                       duplicate_content |-> FALSE, click_depth |-> 2],
     on_page_score |-> 85,
     checks |-> [no_h1_tag |-> FALSE, low_content_rate |-> FALSE,
                 high_loading_time |-> TRUE, is_redirect |-> FALSE,
                 is_4xx |-> FALSE, is_5xx |-> FALSE]]

OnPagePlaceholderTask(endpoint, now) ==
    [id |-> <<"placeholder_onpage_", now>>,
     status_code |-> StatusOk,
     status_message |-> "Ok. (placeholder)",
     time |-> now, cost |-> 0, result_count |-> 1,
     path |-> <<endpoint>>,
     data |-> [api |-> "on_page", function |-> "task_post", se_type |-> "task_post",
               result |-> [crawl_progress |-> "finished",
                           crawl_status |->
                              [max_crawl_pages |-> 100, pages_crawled |-> 50,
                               pages_summary |-> [s2xx |-> 45, s3xx |-> 3,
                                                  s4xx |-> 2, s5xx |-> 0]],
                           items_count |-> 50,
                           items |-> <<OnPagePlaceholderItem>>]]]

KeywordsPlaceholderTask(now) ==
    [id |-> <<"placeholder_keywords_", now>>,
     status_code |-> StatusOk,
     status_message |-> "Ok. (placeholder)",
     result |-> <<[keyword |-> "example seo", location_code |-> 2840,
                   language_code |-> "en", search_partners |-> FALSE,
                   competition |-> "MEDIUM", competition_index |-> 45,
                   search_volume |-> 8900, low_top_of_page_bid |-> "1.2",
                   high_top_of_page_bid |-> "3.8", cpc |-> "2.5",
                   monthly_searches |->
                      <<[year |-> 2024, month |-> 7, search_volume |-> 8900],
                        [year |-> 2024, month |-> 6, search_volume |-> 9200],
                        [year |-> 2024, month |-> 5, search_volume |-> 8700]>>]>>]

WithTasks(r, tasks) ==
    [k \in (DOMAIN r) \cup {"tasks"} |-> IF k = "tasks" THEN tasks ELSE r[k]]

\* A faulty variant of getPlaceholderResponse: the '/keywords_data/' branch is
\* missing
getPlaceholderResponseOnPageOnly(endpoint, now) ==
    IF IncludesSegment(endpoint, "on_page")
    THEN WithTasks(baseResponse(now), <<OnPagePlaceholderTask(endpoint, now)>>)
    ELSE baseResponse(now)

getPlaceholderResponse(endpoint, now) ==
    IF IncludesSegment(endpoint, "on_page")
    THEN WithTasks(baseResponse(now), <<OnPagePlaceholderTask(endpoint, now)>>)
    ELSE IF IncludesSegment(endpoint, "keywords_data")
         THEN WithTasks(baseResponse(now), <<KeywordsPlaceholderTask(now)>>)
         ELSE baseResponse(now)

\* What the fetch of makeRequest can do: as for perplexityChat; "ok" carries
\* the parsed body.
DfsFetchOutcomes ==
    { [kind |-> "reject"], [kind |-> "http"], [kind |-> "badjson"],
      [kind |-> "never"],
      [kind |-> "ok", value |-> [status_code |-> StatusOk, tasks_count |-> 1]],
      [kind |-> "ok", value |-> [status_code |-> 40100, tasks_count |-> 0]] }

hasCredentials(login, password) == login /\ password

\* makeRequest(endpoint) with the credentials of the environment, the fetch
\* outcome o (not "never") and the time now: the promise's settlement.
makeRequest(login, password, endpoint, o, now) ==
    IF ~hasCredentials(login, password)
    THEN [kind |-> "return", value |-> getPlaceholderResponse(endpoint, now)]
    ELSE IF o.kind = "ok"
         THEN [kind |-> "return", value |-> o.value]
         ELSE [kind |-> "return", value |-> getPlaceholderResponse(endpoint, now)]

routeVars == <<pc, body, auditResult, response, contacted, serpCall, aiCall,
               step3, threwAt, prev, cancelled>>

\* A client method calls makeRequest: without credentials it returns the
\* placeholder at once, otherwise it issues its fetch
Client_MakeRequest ==
    /\ dfsReq.state = "none"
    /\ \E e \in Endpoints :
         IF ~hasCredentials(dfsLogin, dfsPassword)
         THEN dfsReq' = [state |-> "settled", endpoint |-> e,
                         result |-> makeRequest(dfsLogin, dfsPassword, e,
                                                [kind |-> "reject"], clock)]
         ELSE \E o \in DfsFetchOutcomes :
                dfsReq' = [state |-> "pending", endpoint |-> e, outcome |-> o]
    /\ UNCHANGED <<pageVars, batch, apiKey, dfsLogin, dfsPassword, clock>>
    /\ UNCHANGED routeVars

\* The fetch of makeRequest settles and makeRequest returns
Client_Settle ==
    /\ dfsReq.state = "pending"
    /\ dfsReq.outcome.kind # "never"
    /\ dfsReq' = [state |-> "settled", endpoint |-> dfsReq.endpoint,
                  outcome |-> dfsReq.outcome,
                  result |-> makeRequest(dfsLogin, dfsPassword, dfsReq.endpoint,
                                         dfsReq.outcome, clock)]
    /\ UNCHANGED <<pageVars, batch, apiKey, dfsLogin, dfsPassword, clock>>
    /\ UNCHANGED routeVars

\* Time passes before the call and while makeRequest is suspended on its fetch
Client_Tick ==
    /\ dfsReq.state \in {"none", "pending"}
    /\ clock < MaxClock
    /\ clock' = clock + 1
    /\ UNCHANGED <<pageVars, batch, apiKey, dfsLogin, dfsPassword, dfsReq>>
    /\ UNCHANGED routeVars

-----------------------------------------------------------------------------
(* app/audit/page.tsx: AuditPage, values and pure parts *)

\* searchParams.get of a parameter that is not in the URL
Null == [type |-> "null", val |-> ""]

\* !v and the left side of v || d, for a string or null
Missing(v) == v.type = "null" \/ Falsy(v)

\* The URLs the page is opened with: ?domain= absent, empty or given, with
\* and without country and language
PageParams ==
    { [domain |-> Null, country |-> Null, language |-> Null],
      [domain |-> Str(""), country |-> Str("DE"), language |-> Null],
      [domain |-> Str("a"), country |-> Null, language |-> Null],
      [domain |-> Str("example.com"), country |-> Str("DE"), language |-> Str("de")] }

NoParams == [domain |-> Null, country |-> Null, language |-> Null]
NoError == <<>>

\* The object literal the page posts
PostedBody(p) ==
    [domain |-> p.domain,
     country |-> IF Missing(p.country) THEN Str("US") ELSE p.country,
     language |-> IF Missing(p.language) THEN Str("en") ELSE p.language]

\* JSON.stringify of the posted object: its members in order, a member whose
\* value is undefined left out
Stringify(obj) ==
    SelectSeq(<< <<"domain", obj.domain>>, <<"country", obj.country>>,
                 <<"language", obj.language>> >>,
              LAMBDA kv : kv[2].type # "undefined")

\* A member of the parsed object, undefined when the text has none of the name
Member(json, name) ==
    IF \E i \in 1..Len(json) : json[i][1] = name
    THEN json[CHOOSE i \in 1..Len(json) : json[i][1] = name][2]
    ELSE Undefined

\* const { domain, market } = await request.json() in the route
RequestJson(json) ==
    [kind |-> "object", domain |-> Member(json, "domain"),
     market |-> Member(json, "market")]

\* The text of a stream is a sequence of pieces; "\n" is the line feed and
\* 'data: ' is the two pieces "data:" and " ", so that a chunk may end
\* inside the prefix and inside the JSON text.
LineEv1 == <<"data:", " ", "{", "1", "}">>
LineDone == <<"data:", " ", "{", "done", "}">>
LineBad == <<"data:", " ", "{", "1">>
LineComment == <<":", "ping">>

Ev1 == [stage |-> "validation", message |-> "Validating domain"]
EvDone == [stage |-> "complete", message |-> "Audit complete", completed |-> TRUE]

\* The lines of the streams a server sends: none, events with and without a
\* final completed event, a line that is not JSON, a comment line, a blank
\* line between events
StreamLines ==
    { <<>>,
      <<LineEv1>>,
      <<LineEv1, LineDone>>,
      <<LineBad, LineDone>>,
      <<LineComment, LineEv1>>,
      <<LineEv1, <<>>, LineDone, <<>>>> }

RECURSIVE Join(_, _)
\* The lines with a line feed after each, the last one only if terminated
Join(lines, terminated) ==
    IF lines = <<>> THEN <<>>
    ELSE IF Len(lines) = 1
         THEN lines[1] \o (IF terminated THEN <<"\n">> ELSE <<>>)
         ELSE lines[1] \o <<"\n">> \o Join(Tail(lines), terminated)

\* response.ok
ResponseOk(status) == status >= 200 /\ status < 300

PageOutcome(k, st, ls, t) ==
    [kind |-> k, status |-> st, lines |-> ls, terminated |-> t,
     stream |-> Join(ls, t)]

\* What the route of this repository answers to a body: the 400 of its
\* validation, or else its report as one JSON text, which is no event stream
RouteAnswer(json) ==
    IF ~Validate(RequestJson(json).domain, RequestJson(json).market)
    THEN PageOutcome("http", BadRequest.status, <<>>, FALSE)
    ELSE PageOutcome("stream", 200, << <<"{", "report", "}">> >>, FALSE)

\* What fetch('/api/audit') gives the page: a rejection, the answer of this
\* repository's route, a response without body, or the event stream the
\* page is written for, whose last line may lack its line feed
PageFetchOutcomes(json) ==
    { PageOutcome("reject", 0, <<>>, FALSE),
      RouteAnswer(json),
      PageOutcome("nobody", 200, <<>>, FALSE) }
    \cup { PageOutcome("stream", 200, ls, t) : ls \in StreamLines, t \in BOOLEAN }

RECURSIVE SplitLines(_)
\* text.split('\n')
SplitLines(text) ==
    IF \A i \in 1..Len(text) : text[i] # "\n"
    THEN <<text>>
    ELSE LET i == CHOOSE j \in 1..Len(text) :
                     text[j] = "\n" /\ \A k \in 1..(j - 1) : text[k] # "\n"
         IN <<SubSeq(text, 1, i - 1)>> \o SplitLines(SubSeq(text, i + 1, Len(text)))

\* line.startsWith('data: ')
StartsWithData(line) == Len(line) >= 2 /\ line[1] = "data:" /\ line[2] = " "

\* JSON.parse(line.slice(6)): the value, or a SyntaxError
JSONParse(text) ==
    CASE text = <<"{", "1", "}">> -> [ok |-> TRUE, value |-> Ev1]
      [] text = <<"{", "done", "}">> -> [ok |-> TRUE, value |-> EvDone]
      [] OTHER -> [ok |-> FALSE]

Payload(line) == SubSeq(line, 3, Len(line))

RECURSIVE EventsOf(_)
\* The for loop over the complete lines: the values it appends to auditData
EventsOf(lines) ==
    IF lines = <<>> THEN <<>>
    ELSE (IF StartsWithData(lines[1]) /\ JSONParse(Payload(lines[1])).ok
          THEN <<JSONParse(Payload(lines[1])).value>>
          ELSE <<>>) \o EventsOf(Tail(lines))

\* data.completed
Completed(e) == "completed" \in DOMAIN e /\ e.completed = TRUE

-----------------------------------------------------------------------------
(* app/audit/page.tsx: the effect and runAudit *)

\* A runAudit call: where it is, the effect run it belongs to, the text it
\* posted, the response it got, how much of the stream it has read, and its
\* buffer
NoPageRun ==
    [pc |-> "none", id |-> 0, body |-> <<>>,
     outcome |-> PageOutcome("none", 0, <<>>, FALSE), pos |-> 0, buffer |-> <<>>]

\* The effect: without a domain it redirects, otherwise it calls runAudit,
\* which issues the fetch.  It resets no state and returns no cleanup.
Effect(p, id) ==
    IF Missing(p.domain)
    THEN [NoPageRun EXCEPT !.pc = "redirected", !.id = id]
    ELSE [NoPageRun EXCEPT !.pc = "fetching", !.id = id,
                           !.body = Stringify(PostedBody(p))]

\* What a step of runAudit does: the call afterwards, the events it appends,
\* whether it calls setIsLoading(false), and the error it sets (none: <<>>)
Update(r, events, stop, err) ==
    [run |-> r, events |-> events, stop |-> stop, error |-> err]

\* The catch clause of runAudit
Caught(r, message) == Update([r EXCEPT !.pc = "finished"], <<>>, TRUE, message)

\* The fetch settles with o: a rejection, a status that is not ok and a
\* response without body end in the catch clause; otherwise the loop starts
FetchSettled(r, o) ==
    IF o.kind = "reject"
    THEN Caught([r EXCEPT !.outcome = o], Lit("Failed to fetch"))
    ELSE IF ~ResponseOk(o.status)
         THEN Caught([r EXCEPT !.outcome = o], <<"HTTP error! status: ", o.status>>)
         ELSE IF o.kind = "nobody"
              THEN Caught([r EXCEPT !.outcome = o],
                          Lit("No response body reader available"))
              ELSE Update([r EXCEPT !.pc = "reading", !.outcome = o],
                          <<>>, FALSE, NoError)

\* One turn of the loop with a chunk of the next n pieces: the buffer and
\* the chunk are split into lines, the last one is kept as the buffer, the
\* others are processed
ReadChunk(r, n) ==
    LET text == r.buffer \o SubSeq(r.outcome.stream, r.pos + 1, r.pos + n)
        lines == SplitLines(text)
        events == EventsOf(SubSeq(lines, 1, Len(lines) - 1))
    IN Update([r EXCEPT !.pos = r.pos + n, !.buffer = lines[Len(lines)]],
              events,
              \E i \in 1..Len(events) : Completed(events[i]),
              NoError)

\* reader.read() reports done: the loop is left and runAudit returns
ReadDone(r) == Update([r EXCEPT !.pc = "finished"], <<>>, FALSE, NoError)

\* The state setters of a step of the call with identity id
Apply(u) ==
    /\ auditData' = auditData \o u.events
    /\ appender' = appender \o
         [k \in 1..Len(u.events) |-> [id |-> u.run.id, latest |-> run.id]]
    /\ isLoading' = (IF u.stop THEN FALSE ELSE isLoading)
    /\ error' = (IF u.error # NoError THEN u.error ELSE error)

pageFrame == <<batch, clock, apiKey, dfsLogin, dfsPassword, dfsReq, pc, body,
               auditResult, response, contacted, serpCall, aiCall, step3,
               threwAt, prev, cancelled>>

\* The page is opened: first render and effect
Page_Mount ==
    /\ run.pc = "none"
    /\ \E p \in PageParams :
         /\ params' = p
         /\ run' = Effect(p, 1)
    /\ UNCHANGED <<old, auditData, isLoading, error, appender>>
    /\ UNCHANGED pageFrame

\* The fetch of the latest runAudit settles
Page_FetchSettle ==
    /\ run.pc = "fetching"
    /\ \E o \in PageFetchOutcomes(run.body) :
         /\ run' = FetchSettled(run, o).run
         /\ Apply(FetchSettled(run, o))
    /\ UNCHANGED <<params, old>>
    /\ UNCHANGED pageFrame

\* reader.read() of the latest runAudit delivers a chunk
Page_Read ==
    /\ run.pc = "reading"
    /\ \E n \in 1..(Len(run.outcome.stream) - run.pos) :
         /\ run' = ReadChunk(run, n).run
         /\ Apply(ReadChunk(run, n))
    /\ UNCHANGED <<params, old>>
    /\ UNCHANGED pageFrame

\* reader.read() of the latest runAudit reports the end of the stream
Page_ReadDone ==
    /\ run.pc = "reading"
    /\ run.pos = Len(run.outcome.stream)
    /\ run' = ReadDone(run).run
    /\ Apply(ReadDone(run))
    /\ UNCHANGED <<params, old>>
    /\ UNCHANGED pageFrame

\* reader.read() of the latest runAudit rejects: the connection broke
Page_ReadError ==
    /\ run.pc = "reading"
    /\ run' = Caught(run, Lit("network error")).run
    /\ Apply(Caught(run, Lit("network error")))
    /\ UNCHANGED <<params, old>>
    /\ UNCHANGED pageFrame

\* The effect runs again, with new search parameters or the same, while the
\* page is shown: the call of the effect before goes on
Page_Rerun ==
    /\ run.pc \notin {"none", "redirected"}
    /\ old.pc = "none"
    /\ \E p \in PageParams :
         /\ params' = p
         /\ run' = Effect(p, run.id + 1)
    /\ old' = run
    /\ UNCHANGED <<auditData, isLoading, error, appender>>
    /\ UNCHANGED pageFrame

\* The steps of the runAudit call of the effect before
Stale_FetchSettle ==
    /\ old.pc = "fetching"
    /\ \E o \in PageFetchOutcomes(old.body) :
         /\ old' = FetchSettled(old, o).run
         /\ Apply(FetchSettled(old, o))
    /\ UNCHANGED <<params, run>>
    /\ UNCHANGED pageFrame

Stale_Read ==
    /\ old.pc = "reading"
    /\ \E n \in 1..(Len(old.outcome.stream) - old.pos) :
         /\ old' = ReadChunk(old, n).run
         /\ Apply(ReadChunk(old, n))
    /\ UNCHANGED <<params, run>>
    /\ UNCHANGED pageFrame

Stale_ReadDone ==
    /\ old.pc = "reading"
    /\ old.pos = Len(old.outcome.stream)
    /\ old' = ReadDone(old).run
    /\ Apply(ReadDone(old))
    /\ UNCHANGED <<params, run>>
    /\ UNCHANGED pageFrame

Stale_ReadError ==
    /\ old.pc = "reading"
    /\ old' = Caught(old, Lit("network error")).run
    /\ Apply(Caught(old, Lit("network error")))
    /\ UNCHANGED <<params, run>>
    /\ UNCHANGED pageFrame

-----------------------------------------------------------------------------
(* lib/perplexity.ts: a call of comprehensiveSEOAnalysis(domain, market) *)

batchFrame == <<pageVars, apiKey, dfsLogin, dfsPassword, dfsReq, pc, body, auditResult,
                response, contacted, serpCall, aiCall, step3, threwAt, prev,
                cancelled>>

\* The four perplexityChat calls are made one after the other without an
\* await between them: each checks the key, which rejects its promise, or
\* issues its fetch
Batch_Start ==
    /\ batch.state = "none"
    /\ \E in \in BatchInputs :
         LET d == in[1]
             m == in[2]
         IN
         IF perplexityKeyCheck(apiKey).kind = "throw"
         THEN batch' = [state |-> "running", domain |-> d, market |-> m,
                        calls |-> [i \in KindIndex |->
                                     [state |-> "rejected",
                                      prompt |-> seoPrompts(Kinds[i], d, m),
                                      reason |-> perplexityKeyCheck(apiKey).error]]]
         ELSE \E os \in [KindIndex -> BatchFetchOutcomes] :
                batch' = [state |-> "running", domain |-> d, market |-> m,
                          calls |-> [i \in KindIndex |->
                                       [state |-> "pending",
                                        prompt |-> seoPrompts(Kinds[i], d, m),
                                        outcome |-> os[i]]]]
    /\ UNCHANGED clock
    /\ UNCHANGED batchFrame

\* The fetch of one of the calls settles and its perplexityChat returns
Batch_Settle ==
    /\ batch.state = "running"
    /\ \E i \in KindIndex :
         /\ batch.calls[i].state = "pending"
         /\ batch.calls[i].outcome.kind # "never"
         /\ batch' = [batch EXCEPT !.calls[i] =
                        [state |-> "fulfilled",
                         prompt |-> batch.calls[i].prompt,
                         outcome |-> batch.calls[i].outcome,
                         value |-> perplexityChat(apiKey, batch.calls[i].outcome,
                                                  clock).value]]
    /\ UNCHANGED clock
    /\ UNCHANGED batchFrame

\* The await of comprehensiveSEOAnalysis resumes and the function returns
Batch_Return ==
    /\ batch.state = "running"
    /\ allSettled(batch.calls).ready
    /\ IF allSettled(batch.calls).kind = "rejected"
       THEN batch' = [batch EXCEPT !.state = "rejected"]
       ELSE batch' = [state |-> "returned", domain |-> batch.domain,
                      market |-> batch.market, calls |-> batch.calls,
                      result |-> comprehensiveResult(batch.calls)]
    /\ UNCHANGED clock
    /\ UNCHANGED batchFrame

\* Time passes while comprehensiveSEOAnalysis is suspended
Batch_Tick ==
    /\ batch.state = "running"
    /\ clock < MaxClock
    /\ clock' = clock + 1
    /\ UNCHANGED batch
    /\ UNCHANGED batchFrame

-----------------------------------------------------------------------------
Init ==
    /\ apiKey \in BOOLEAN
    /\ dfsLogin \in BOOLEAN
    /\ dfsPassword \in BOOLEAN
    /\ clock = 0
    /\ pc = "idle"
    /\ body = MalformedBody
    /\ auditResult = NoResult
    /\ response = NoResponse
    /\ contacted = {}
    /\ serpCall = NoCall
    /\ aiCall = NoCall
    /\ step3 = "none"
    /\ threwAt = "none"
    /\ dfsReq = NoCall
    /\ prev = NoRun
    /\ cancelled = FALSE
    /\ batch = NoBatch
    /\ params = NoParams
    /\ run = NoPageRun
    /\ old = NoPageRun
    /\ auditData = <<>>
    /\ isLoading = TRUE
    /\ error = NoError
    /\ appender = <<>>

Next ==
    \/ POST_Receive
    \/ POST_Step1
    \/ POST_Step1Settle
    \/ POST_Step2
    \/ POST_Step2Settle
    \/ POST_Step3
    \/ POST_Recommendations
    \/ POST_Return
    \/ Tick

Spec == Init /\ [][Next]_vars
FairSpec == Spec /\ WF_vars(Next)

\* The calls of makeRequest alone
ClientNext ==
    \/ Client_MakeRequest
    \/ Client_Settle
    \/ Client_Tick

ClientSpec == Init /\ [][ClientNext]_vars

\* The route handler serving a request and then the same request again
RunsNext == Next \/ POST_Repeat
RunsSpec == Init /\ [][RunsNext]_vars

\* The route handler with a caller that may abort its request
CancelNext == Next \/ Cancel
CancelSpec == Init /\ [][CancelNext]_vars

\* A call of comprehensiveSEOAnalysis
BatchNext ==
    \/ Batch_Start
    \/ Batch_Settle
    \/ Batch_Return
    \/ Batch_Tick
BatchSpec == Init /\ [][BatchNext]_vars

\* The page runs in the browser and reads nothing of the server's
\* environment, which is taken as configured
PageInit == Init /\ apiKey /\ dfsLogin /\ dfsPassword

\* The results page opened once
PageNext ==
    \/ Page_Mount
    \/ Page_FetchSettle
    \/ Page_Read
    \/ Page_ReadDone
    \/ Page_ReadError
PageSpec == PageInit /\ [][PageNext]_vars

\* The results page whose effect runs a second time
RerunNext ==
    \/ PageNext
    \/ Page_Rerun
    \/ Stale_FetchSettle
    \/ Stale_Read
    \/ Stale_ReadDone
    \/ Stale_ReadError
RerunSpec == PageInit /\ [][RerunNext]_vars

\* The whole program: a run of the route handler or a call of the client.
\* The route never calls a method of the client and the two share nothing
\* but the environment and the time, so a behaviour follows one of them.
RouteStep == dfsReq.state = "none" /\ Next
ClientStep == pc = "idle" /\ ClientNext
ProgramNext == RouteStep \/ ClientStep
ProgramSpec == Init /\ [][ProgramNext]_vars

-----------------------------------------------------------------------------
(* Vocabulary of the properties *)

Done == pc = "done"
Received == pc # "idle" /\ body.kind = "object"
ValidRequest == Received /\ Validate(body.domain, body.market)

Has(r, k) == k \in DOMAIN r

\* How a section is marked: the code has no status field; perplexityChat
\* marks its fallback value with fallback: true, and an error object carries
\* an error field.
IsFallback(sec) == Has(sec, "fallback") /\ sec.fallback = TRUE
Status(sec) ==
    IF IsFallback(sec) THEN "FALLBACK"
    ELSE IF Has(sec, "error") THEN "FAILED" ELSE "OK"

SerpSucceeded == serpCall.state = "settled" /\ serpCall.outcome.kind = "ok"
SerpFailed == serpCall.state = "threw"
              \/ (serpCall.state = "settled" /\ serpCall.outcome.kind # "ok")
AiSucceeded == aiCall.state = "settled" /\ aiCall.outcome.kind = "ok"
AiFailed == aiCall.state = "threw"
            \/ (aiCall.state = "settled" /\ aiCall.outcome.kind # "ok")
\* The error the failed AI call ended with
AiError == IF aiCall.state = "threw" THEN aiCall.result.error
           ELSE FetchErrorMessage(aiCall.outcome)

AllUnconfigured == ~apiKey /\ ~dfsLogin /\ ~dfsPassword

-----------------------------------------------------------------------------
IsolatedIn(r) ==
    /\ SerpSucceeded =>
          /\ Has(r, "serpResearch")
          /\ r.serpResearch = serpCall.outcome.value
          /\ Status(r.serpResearch) = "OK"
    /\ AiSucceeded =>
          /\ Has(r, "seoAnalysis")
          /\ r.seoAnalysis = aiCall.result.value
          /\ Status(r.seoAnalysis) = "OK"
    /\ (step3 = "ok") =>
          /\ r.technicalAudit = TechnicalAudit(body.market)
          /\ r.contentAnalysis = ContentAnalysis(body.market)
          /\ r.competitorAnalysis = CompetitorAnalysis(body.market)
          /\ \A k \in {"technicalAudit", "contentAnalysis", "competitorAnalysis"} :
                Status(r[k]) = "OK"

C2_WitnessAiFailed ==
    /\ Done /\ response.status = 200
    /\ SerpSucceeded /\ AiFailed

(* C3 A provider failure never fails the call: a finished run answers 200,  *)
(* or 400 for an invalid request, or 500 for an exception thrown outside    *)
(* the provider steps (the body cannot be parsed, the recommendations       *)
(* cannot be built); a valid request whose market is a string answers 200.  *)
C3_ProviderFailureNeverFailsCall ==
    Done =>
      /\ \/ response.status = 200
         \/ response.status = 400 /\ Received /\ ~ValidRequest
         \/ response.status = 500 /\ threwAt \in {"json", "recommendations"}
      /\ (ValidRequest /\ Printable(body.market)) => response.status = 200

\* Both providers failed and the report was returned all the same
C3_Witness ==
    /\ Done /\ response.status = 200
    /\ SerpFailed /\ aiCall.state = "threw"

(* C4 Validation: a request whose domain or market is empty or missing is   *)
(* answered 400 'Domain and market are required' and no adapter is called   *)
(* or constructed.                                                          *)
C4_Validation ==
    (Received /\ (Falsy(body.domain) \/ Falsy(body.market))) =>
        /\ Done
        /\ response = BadRequest
        /\ contacted = {}
        /\ serpCall = NoCall /\ aiCall = NoCall /\ step3 = "none"

C4_Witness ==
    /\ Done /\ response.status = 400
    /\ body.domain = Str("example.com") /\ body.market = Str("")

(* C5 Fallback substitution: the section of every failed step holds a       *)
(* fallback payload, is marked as a fallback and carries the original       *)
(* error message.                                                           *)
C5_FallbackSubstitution ==
    /\ (AiFailed /\ pc \in {"step3", "recs", "return", "done"}
          /\ Has(auditResult, "seoAnalysis")) =>
          /\ IsFallback(auditResult.seoAnalysis)
          /\ Has(auditResult.seoAnalysis, "content")
          /\ Has(auditResult.seoAnalysis, "error")
          /\ auditResult.seoAnalysis.error = AiError
    /\ (SerpFailed /\ Has(auditResult, "serpResearch")) =>
          /\ IsFallback(auditResult.serpResearch)
          /\ Has(auditResult.serpResearch, "error")

(* C6 All adapters unconfigured: a valid request is answered 200 with a     *)
(* complete report in which every section is marked FALLBACK.               *)
C6_AllUnconfigured ==
    (AllUnconfigured /\ ValidRequest /\ Printable(body.domain)
        /\ Printable(body.market) /\ Done) =>
        /\ response.status = 200
        /\ SectionKeys \subseteq DOMAIN response.body
        /\ \A k \in SectionKeys :
              Has(response.body, k) => Status(response.body[k]) = "FALLBACK"

(* C7 An adapter never throws past its boundary: the promises of           *)
(* perplexityChat and of makeRequest are never rejected.                    *)
MakeRequestResolves ==
    (dfsReq.state = "settled") => dfsReq.result.kind = "return"

C7_AdapterNeverThrows ==
    /\ (aiCall.state \in {"threw", "settled"}) => aiCall.result.kind = "return"
    /\ MakeRequestResolves

(* C8 All failure kinds of the AI step are treated identically: whatever    *)
(* the kind (missing key, fetch rejected, bad response), the section has    *)
(* the form it has when the fetch is rejected: the fallback payload of      *)
(* perplexityChat with its marking.                                         *)
Form(sec) ==
    [fields |-> DOMAIN sec,
     fallback |-> IsFallback(sec),
     content |-> IF Has(sec, "content") THEN sec.content ELSE <<>>]

C8_FailureKindsIdentical ==
    (AiFailed /\ pc \in {"step3", "recs", "return", "done"}
        /\ Has(auditResult, "seoAnalysis")) =>
        Form(auditResult.seoAnalysis)
            = Form(perplexityFallback(Lit("fetch failed"), 0))

(* C9 Per-step timeout: every run of a valid request eventually returns a   *)
(* response, even when a provider call never completes.                     *)
C9_EventuallyResponds == ValidRequest ~> Done

(* C10 No cross-step blocking: independent steps are in flight together:    *)
(* while the SERP call is pending the AI call has been issued, and while    *)
(* the AI call is pending the technical block has run.                      *)
C10_NoCrossStepBlocking ==
    /\ (pc = "await_serp") => aiCall.state # "none"
    /\ (pc = "await_fetch") => step3 # "none"
(* C11 Assembly after all steps: the recommendations are written and the    *)
(* report is returned only when every step has ended (its section is        *)
(* written) and no provider call is pending; no response of any kind is     *)
(* sent while a provider call is pending.                                   *)
NoCallPending == serpCall.state # "pending" /\ aiCall.state # "pending"
AllStepsEnded ==
    /\ NoCallPending
    /\ step3 # "none"
    /\ {"serpResearch", "seoAnalysis", "technicalAudit"} \subseteq DOMAIN auditResult

C11_AssemblyAfterAllSteps ==
    /\ (Has(auditResult, "recommendations") /\ auditResult.recommendations # <<>>)
          => AllStepsEnded
    /\ (response.status = 200) => AllStepsEnded
    /\ (response.status # 0) => NoCallPending

\* A report returned after both provider calls had been pending
C11_Witness ==
    /\ Done /\ response.status = 200
    /\ serpCall.state = "settled" /\ aiCall.state = "settled"
    /\ response.body.recommendations = Recommendations(body.market)

(* C20 Dependent-step ordering: perplexityChat is called only after step 1  *)
(* has ended (success or fallback written), step 3 starts only after step 2 *)
(* has ended, and at most one provider call is in flight.                   *)
C20_SequentialSteps ==
    /\ (aiCall.state # "none" \/ pc \in {"await_fetch", "step3"}) =>
          /\ Has(auditResult, "serpResearch")
          /\ serpCall.state # "pending"
    /\ (step3 # "none") =>
          /\ Has(auditResult, "seoAnalysis")
          /\ aiCall.state # "pending"
    /\ ~(serpCall.state = "pending" /\ aiCall.state = "pending")

\* The AI call in flight after the SERP call has settled
C20_Witness ==
    /\ pc = "await_fetch" /\ aiCall.state = "pending"
    /\ serpCall.state = "settled"
(* C14 Mixed outcome: when the AI call failed and the DataForSEO client is  *)
(* configured, the report holds the AI section as a marked fallback, the    *)
(* technical section as the payload the client's on-page request returned,  *)
(* and a non-empty recommendations list with an entry naming the market.    *)
NamesMarket(rec, m) == \E i \in 1..Len(rec) : rec[i] = m.val

C14_MixedOutcome ==
    (Done /\ response.status = 200 /\ AiFailed
          /\ hasCredentials(dfsLogin, dfsPassword)) =>
       /\ Status(response.body.seoAnalysis) = "FALLBACK"
       /\ Status(response.body.technicalAudit) = "OK"
       /\ dfsReq.state = "settled"
       /\ dfsReq.endpoint = OnPageEndpoint
       /\ response.body.technicalAudit = dfsReq.result.value
       /\ response.body.recommendations # <<>>
       /\ \E i \in 1..Len(response.body.recommendations) :
             NamesMarket(response.body.recommendations[i], body.market)

(* C15 Two response shapes: a response is either a 200 whose body has every *)
(* report key and no error key, or a 400/500 whose body is the error field  *)
(* alone; a request that passed validation gets an error response only from *)
(* the handler's own code, never from a provider call.                      *)
ReportKeys == {"domain", "market", "timestamp", "recommendations"} \cup SectionKeys

C15_TwoShapes ==
    Done =>
      /\ \/ /\ response.status = 200
            /\ ReportKeys \subseteq DOMAIN response.body
            /\ ~Has(response.body, "error")
         \/ /\ response.status \in {400, 500}
            /\ DOMAIN response.body = {"error"}
      /\ (ValidRequest /\ response.status # 200) =>
            /\ response.status = 500
            /\ threwAt = "recommendations"
            /\ serpCall.state = "none" /\ aiCall.state = "none"

\* A complete report although both provider calls failed
C15_Witness ==
    /\ Done /\ response.status = 200 /\ SerpFailed /\ AiFailed
    /\ serpCall.state = "settled" /\ aiCall.state = "settled"

\* The error object of a request that had passed validation
C15_WitnessError ==
    /\ Done /\ response.status = 500 /\ ValidRequest
    /\ "DataForSEOClient" \in contacted

(* C16 Fallback shape: whatever a step writes after a failure has the       *)
(* fields of its success payload: the AI section a content field, the SERP  *)
(* section answer and sources.                                              *)
C16_FallbackShape ==
    /\ (SerpFailed /\ Has(auditResult, "serpResearch")) =>
          {"answer", "sources"} \subseteq DOMAIN auditResult.serpResearch
    /\ (AiFailed /\ Has(auditResult, "seoAnalysis")) =>
          Has(auditResult.seoAnalysis, "content")

(* C18 Frame: the SERP step changes only serpResearch, the AI step only     *)
(* seoAnalysis, the technical block only technicalAudit, contentAnalysis    *)
(* and competitorAnalysis; every other key of the result, domain, market    *)
(* and timestamp included, is the same before and after, on the success and *)
(* on the failure path.                                                     *)
FrameExcept(keys) ==
    /\ (DOMAIN auditResult') \ keys = (DOMAIN auditResult) \ keys
    /\ \A k \in (DOMAIN auditResult) \ keys : auditResult'[k] = auditResult[k]

C18_StepFrame ==
    [][ /\ (pc \in {"step1", "await_serp"}) => FrameExcept({"serpResearch"})
        /\ (pc \in {"step2", "await_fetch"}) => FrameExcept({"seoAnalysis"})
        /\ (pc = "step3") =>
              FrameExcept({"technicalAudit", "contentAnalysis",
                           "competitorAnalysis"}) ]_vars

\* Step 3 has run after a successful SERP step and a failed AI step, and the
\* earlier sections and the request's fields are still there
C18_Witness ==
    /\ pc = "recs" /\ step3 # "none"
    /\ SerpSucceeded /\ AiFailed
    /\ auditResult.serpResearch = serpCall.outcome.value
    /\ Has(auditResult, "seoAnalysis")
    /\ auditResult.domain = body.domain /\ auditResult.market = body.market
(* C17 Fallback totality: whenever makeRequest answers with the placeholder *)
(* it is a response with status_code 20000: with one on-page task for an    *)
(* endpoint containing '/on_page/', one keywords task for one containing    *)
(* '/keywords_data/', the base response without tasks otherwise.  In the    *)
(* route, for every domain and market that pass validation, the one-letter  *)
(* domain included, a step that has ended without a provider's payload has  *)
(* written its inline fallback.                                             *)
PlaceholderReturned ==
    /\ dfsReq.state = "settled"
    /\ ~hasCredentials(dfsLogin, dfsPassword) \/ dfsReq.outcome.kind # "ok"

PlaceholderConforms(v, e) ==
    /\ v.status_code = 20000
    /\ v.status_message = "Ok. (placeholder response)"
    /\ IF IncludesSegment(e, "on_page")
       THEN /\ Has(v, "tasks") /\ Len(v.tasks) = 1
            /\ v.tasks[1].id[1] = "placeholder_onpage_"
            /\ v.tasks[1].status_code = 20000
       ELSE IF IncludesSegment(e, "keywords_data")
            THEN /\ Has(v, "tasks") /\ Len(v.tasks) = 1
                 /\ v.tasks[1].id[1] = "placeholder_keywords_"
                 /\ v.tasks[1].status_code = 20000
            ELSE ~Has(v, "tasks")

C17_FallbackTotality ==
    /\ PlaceholderReturned =>
          /\ dfsReq.result.kind = "return"
          /\ PlaceholderConforms(dfsReq.result.value, dfsReq.endpoint)
    /\ (ValidRequest /\ pc \notin {"step1", "await_serp"}) =>
          /\ Has(auditResult, "serpResearch")
          /\ ~SerpSucceeded => auditResult.serpResearch = SerpFallback
    /\ (ValidRequest /\ pc \in {"step3", "recs", "return"}) =>
          /\ Has(auditResult, "seoAnalysis")
          /\ aiCall.state \in {"none", "threw"} =>
                auditResult.seoAnalysis = AiRouteError

\* The placeholder returned for the keywords endpoint after a failed fetch
C17_Witness ==
    /\ PlaceholderReturned
    /\ hasCredentials(dfsLogin, dfsPassword)
    /\ IncludesSegment(dfsReq.endpoint, "keywords_data")

\* The placeholder returned for an endpoint of neither kind
C17_WitnessBase ==
    /\ PlaceholderReturned
    /\ dfsReq.endpoint = <<"user">>

\* The route's inline fallbacks written for the one-letter domain
C17_WitnessRoute ==
    /\ ValidRequest /\ body.domain = Str("a")
    /\ pc = "step3"
    /\ auditResult.serpResearch = SerpFallback
    /\ auditResult.seoAnalysis = AiRouteError
(* C12 Determinism of assembly: two runs of the handler with the same       *)
(* domain and market in which each step's provider call ended the same way  *)
(* with the same value return reports equal in every field but timestamp.   *)
SansTimestamp(r) == [k \in (DOMAIN r) \ {"timestamp"} |-> r[k]]

SameOutcomes ==
    /\ prev.run
    /\ Done /\ response.status = 200
    /\ body = prev.body
    /\ serpCall = prev.serpCall
    /\ aiCall = prev.aiCall
    /\ step3 = prev.step3

C12_Determinism ==
    SameOutcomes =>
       SansTimestamp(response.body) = SansTimestamp(prev.response.body)

\* Two runs with the same outcomes of settled provider calls, at different
\* times
C12_Witness ==
    /\ SameOutcomes
    /\ serpCall.state = "settled" /\ aiCall.state = "settled"
    /\ response.body.timestamp # prev.response.body.timestamp

(* C13 Recommendations follow the sections' outcomes: two runs with the     *)
(* same market in which different sets of sections were degraded return     *)
(* different recommendations lists.                                         *)
Degraded(serp, ai) ==
    (IF serp.state = "settled" /\ serp.outcome.kind = "ok"
     THEN {} ELSE {"serpResearch"})
    \cup
    (IF ai.state = "settled" /\ ai.outcome.kind = "ok"
     THEN {} ELSE {"seoAnalysis"})

C13_RecommendationsFollowOutcomes ==
    ( /\ prev.run
      /\ Done /\ response.status = 200
      /\ body.market = prev.body.market
      /\ Degraded(serpCall, aiCall) # Degraded(prev.serpCall, prev.aiCall) )
    => response.body.recommendations # prev.response.body.recommendations

(* C19 Cancellation: once the caller has aborted the request no provider    *)
(* call of the run is in flight, and the run ends with a complete report or *)
(* with an error object, never with a partial report.                       *)
C19_CancellationReachesCalls ==
    cancelled =>
      /\ NoCallPending
      /\ Done => \/ /\ response.status = 200
                    /\ ReportKeys \subseteq DOMAIN response.body
                 \/ DOMAIN response.body = {"error"}
(* C21 comprehensiveSEOAnalysis: the four analyses are all issued before    *)
(* any of them settles; the function never rejects; and when it returns,    *)
(* whatever the order of the settlements, the object has the four keys,     *)
(* each holding the value of the call made with that kind's prompt, or that *)
(* kind's error object exactly when the call rejected.                      *)
C21_BatchAllSettled ==
    /\ batch.state # "rejected"
    /\ (batch.state # "none") =>
          \A i \in KindIndex :
             batch.calls[i].prompt = seoPrompts(Kinds[i], batch.domain, batch.market)
    /\ (batch.state = "returned") =>
          /\ DOMAIN batch.result = {"technical", "content", "competitor", "local"}
          /\ \A i \in KindIndex :
                /\ Settled(batch.calls[i])
                /\ (batch.calls[i].state = "rejected") <=>
                      (batch.result[Kinds[i]] = AnalysisFailed(Kinds[i]))
                /\ (batch.calls[i].state = "fulfilled") =>
                      (batch.result[Kinds[i]] = batch.calls[i].value)

\* Returned after the last analysis settled before the first, with a
\* completion, a fallback and two different completions among the values
C21_Witness ==
    /\ batch.state = "returned"
    /\ \A i \in KindIndex : batch.calls[i].state = "fulfilled"
    /\ batch.result.local.timestamp < batch.result.technical.timestamp
    /\ IsFallback(batch.result.content)
    /\ ~IsFallback(batch.result.technical)
    /\ batch.result.technical.content # batch.result.local.content

\* Returned after every analysis rejected for want of the key
C21_WitnessRejected ==
    /\ batch.state = "returned"
    /\ \A i \in KindIndex : batch.calls[i].state = "rejected"
    /\ batch.result.competitor = AnalysisFailed("competitor")
(* C22 The page stops loading: once runAudit has returned, by the end of    *)
(* the stream or by its catch clause, isLoading is false.                   *)
C22_LoadingStops ==
    (run.pc = "finished") => ~isLoading

(* C23 Chunking invariance: when the stream has been read to its end, in    *)
(* whatever chunks, auditData holds the values of the stream's well-formed  *)
(* 'data: ' lines, each once and in stream order, the last line of the      *)
(* stream included; a 'data: ' line that is not JSON is left out.           *)
ReadToEnd(r) ==
    /\ r.pc = "finished"
    /\ r.outcome.kind = "stream"
    /\ r.pos = Len(r.outcome.stream)
    /\ error = NoError

C23_ChunkingInvariance ==
    ReadToEnd(run) => auditData = EventsOf(run.outcome.lines)

\* What the loop does: it is invariant under chunking, with the events of
\* the lines that end in a line feed
TerminatedLines(o) ==
    IF o.terminated \/ o.lines = <<>> THEN o.lines
    ELSE SubSeq(o.lines, 1, Len(o.lines) - 1)

ReadLoopAppendsTerminatedLines ==
    ReadToEnd(run) => auditData = EventsOf(TerminatedLines(run.outcome))

(* C24 Page and route agree: the body the page posts passes the route's     *)
(* validation, and the answer of the route to it is not the 400.            *)
C24_PageRouteAgree ==
    (run.pc \notin {"none", "redirected"}) =>
       /\ Validate(RequestJson(run.body).domain, RequestJson(run.body).market)
       /\ RouteAnswer(run.body).status # 400

(* C25 Only the current audit: once the effect has run again while the     *)
(* call of the effect before was reading its stream, no entry is appended   *)
(* to auditData by that earlier call.                                       *)
C25_OnlyCurrentRun ==
    (old.pc # "none") =>
       \A k \in 1..Len(appender) :
          (appender[k].latest = run.id) => (appender[k].id = run.id)
====
